---- MODULE Spec2Model ----
(***************************************************************************)
(* The user-registry command line of src/app/cli.py: eight commands, each  *)
(* of which opens a session on the store, runs one query or one mutation,  *)
(* prints its result and leaves the session.                               *)
(*                                                                         *)
(* A string is a tuple of one-character strings ("bob" is <<"b","o","b">>),*)
(* so that substring and LIKE matching are computed character by character.*)
(* The store is the User table in storage order (the order a SELECT with   *)
(* no ORDER BY returns), or no table at all before the first initialize.   *)
(***************************************************************************)
EXTENDS Integers, Sequences, FiniteSets, TLC

VARIABLES
    schema,     \* TRUE when the User table exists in the store
    table,      \* the committed rows of the User table, in storage order
    session,    \* the session object of the last command, as the command left it
    cmd,        \* the last command run ("none" before the first)
    args,       \* its arguments
    out,        \* what it printed: [msg, rows]
    cond,       \* the condition it met: "none", "not_found" or "duplicate"
    exc,        \* the exception that propagated out of it, "none" if it ended normally
    before,     \* history: [schema, table] as they were when the last command started
    pageLog     \* history: the results of the list_paginated scan in progress

vars == <<schema, table, session, cmd, args, out, cond, exc, before, pageLog>>

----------------------------------------------------------------------------
(* Bounds *)

\* The largest id the store hands out in the model.
MaxId == 4
\* The largest limit and offset given to list_paginated, besides the defaults
\* (the smallest is -1).
MaxLimit == 3
MaxOffset == 4

----------------------------------------------------------------------------
(* Strings *)

bob == <<"b", "o", "b">>
bobmail == <<"b", "o", "b", "@", "m", "a", "i", "l", ".", "c", "o", "m">>
bobpass == <<"b", "o", "b", "p", "a", "s", "s">>

\* The values the commands are run with. "bo" is a proper substring of "bob".
Usernames == {bob, <<"b", "o">>, <<"a", "l">>}
Emails == {bobmail, <<"x", "@", "x", ".", "c", "o", "m">>, <<"a", "@", "b">>}
\* The seed user's password is bobpass; create_user is run with this one.
Passwords == {<<"p", "w">>}
Queries ==
    {bob, <<"b", "o">>, <<"B", "O">>, <<"@", "x">>, <<"z">>, <<"_">>, <<"%">>,
     <<"b", "_", "b">>}

\* The numbered users that fill the table for the pagination scans.
Digits == <<"1", "2", "3", "4", "5", "6", "7", "8", "9">>
PoolSize == MaxId - 1
PoolName(i) == <<"u", Digits[i]>>
PoolMail(i) == <<"u", Digits[i], "@", "x">>

DefaultLimit == 10
DefaultOffset == 0
\* Neither option is validated: a negative value reaches the store too.
Limits == (-1 .. MaxLimit) \cup {DefaultLimit}
Offsets == (-1 .. MaxOffset) \cup {DefaultOffset}

Upper == <<"A", "B", "C", "D", "E", "F", "G", "H", "I", "J", "K", "L", "M",
           "N", "O", "P", "Q", "R", "S", "T", "U", "V", "W", "X", "Y", "Z">>
Lower == <<"a", "b", "c", "d", "e", "f", "g", "h", "i", "j", "k", "l", "m",
           "n", "o", "p", "q", "r", "s", "t", "u", "v", "w", "x", "y", "z">>
ToLower(c) ==
    IF \E i \in 1 .. Len(Upper) : Upper[i] = c
    THEN Lower[CHOOSE i \in 1 .. Len(Upper) : Upper[i] = c]
    ELSE c

----------------------------------------------------------------------------
(* The User entity and the store *)

NoStr == <<>>
NoArgs ==
    [username |-> NoStr, email |-> NoStr, password |-> NoStr, query |-> NoStr,
     limit |-> 0, offset |-> 0, fold |-> FALSE]

\* User(username=..., email=..., password=...): id is None (0) until the store sets it.
User(username, email, password) ==
    [id |-> 0, username |-> username, email |-> email, password |-> password]

Range(s) == {s[i] : i \in 1 .. Len(s)}

\* The id the store gives the next inserted row: one more than the largest in the table.
NewId(rows) ==
    IF rows = <<>> THEN 1
    ELSE 1 + (CHOOSE m \in {r.id : r \in Range(rows)} :
                \A r \in Range(rows) : r.id <= m)

\* The uniqueness constraints of the User table: username unique, email unique.
Conflicts(rows, row) ==
    \E r \in Range(rows) :
        /\ r.id # row.id
        /\ (r.username = row.username \/ r.email = row.email)

\* Metadata.drop_all: the table and its rows go; no error when there is no table.
drop_all(st) == [schema |-> FALSE, table |-> <<>>]

\* Metadata.create_all: creates the table when absent, leaves an existing one alone.
create_db_and_tables(st) ==
    IF st.schema THEN st ELSE [schema |-> TRUE, table |-> <<>>]

----------------------------------------------------------------------------
(* The session: the unit of work of one command *)

\* get_session(): a fresh session, open, with nothing pending.
get_session == [open |-> TRUE, pending |-> <<>>]

\* Leaving the scope of get_session(): the session is closed and whatever it
\* still held uncommitted is discarded.
SessionClose(db) == [open |-> FALSE, pending |-> <<>>]

\* db.add(obj): a new object is inserted at the next flush, a loaded one updated.
Add(db, row) ==
    [db EXCEPT !.pending = Append(@, [op |-> "add", row |-> row])]

\* db.delete(obj)
Delete(db, row) ==
    [db EXCEPT !.pending = Append(@, [op |-> "delete", row |-> row])]

\* db.rollback(): the pending changes are dropped.
Rollback(db) == [db EXCEPT !.pending = <<>>]

\* One pending change applied to the rows: INSERT (the store sets the id and the
\* row goes last in storage order), UPDATE in place, or DELETE.
ApplyOp(rows, op) ==
    IF op.op = "delete"
    THEN SelectSeq(rows, LAMBDA r : r.id # op.row.id)
    ELSE IF op.row.id = 0
    THEN Append(rows, [op.row EXCEPT !.id = NewId(rows)])
    ELSE [i \in 1 .. Len(rows) |->
            IF rows[i].id = op.row.id THEN op.row ELSE rows[i]]

OpFails(rows, op) == op.op = "add" /\ Conflicts(rows, op.row)

\* The flush of a commit: the pending changes in order; the first one that
\* breaks a uniqueness constraint fails the whole transaction.
RECURSIVE Flush(_, _)
Flush(rows, pending) ==
    IF pending = <<>> THEN [ok |-> TRUE, rows |-> rows]
    ELSE IF OpFails(rows, Head(pending)) THEN [ok |-> FALSE, rows |-> rows]
    ELSE Flush(ApplyOp(rows, Head(pending)), Tail(pending))

\* db.commit(): OperationalError when the table does not exist, IntegrityError
\* (nothing written, the changes still pending in the session) when a constraint
\* is broken, otherwise the changes are in the store.
Commit(st, db) ==
    IF ~st.schema
    THEN [exc |-> "OperationalError", st |-> st, db |-> db]
    ELSE LET f == Flush(st.table, db.pending)
         IN  IF f.ok
             THEN [exc |-> "none",
                   st |-> [schema |-> TRUE, table |-> f.rows],
                   db |-> [db EXCEPT !.pending = <<>>]]
             ELSE [exc |-> "IntegrityError", st |-> st, db |-> db]

----------------------------------------------------------------------------
(* What a command leaves behind *)

Printed(msg, rows) == [msg |-> msg, rows |-> rows]
Nothing == Printed("", <<>>)

Result(st, db, o, c, e) ==
    [schema |-> st.schema, table |-> st.table, session |-> db,
     out |-> o, cond |-> c, exc |-> e]

\* An exception that no handler catches: nothing more is printed.
Propagate(st, db, c, e) == Result(st, db, Nothing, c, e)

\* Faulty variant: the session taken without the with block, never left.
WithSession_NoExit(r) == r
\* `with get_session() as db:` - however control leaves the block (its end, a
\* return, an exception), the session's scope is left.
WithSession(r) == [r EXCEPT !.session = SessionClose(@)]

None == User(NoStr, NoStr, NoStr)
First(rows) == IF rows = <<>> THEN None ELSE rows[1]

\* Faulty variant: the lookup by containment instead of equality.
FindByUsername_Substring(rows, username) ==
    First(SelectSeq(rows, LAMBDA r :
        \E i \in 0 .. Len(r.username) - Len(username) :
            SubSeq(r.username, i + 1, i + Len(username)) = username))
\* db.exec(select(User).where(User.username == username)).first()
FindByUsername(rows, username) ==
    First(SelectSeq(rows, LAMBDA r : r.username = username))

\* The row the store holds under a primary key: db.refresh(obj) reloads it.
Refresh(rows, id) == First(SelectSeq(rows, LAMBDA r : r.id = id))

\* The condition behind an exception raised by the store.
CondOf(e) == IF e = "IntegrityError" THEN "duplicate" ELSE "none"

----------------------------------------------------------------------------
(* The commands.  Each takes the store st = [schema, table] it runs against *)
(* and gives the Result it leaves.                                          *)

\* Faulty variant: the seed inserted without dropping the tables first.
initialize_NoDrop(st) ==
    WithSession(
        LET db == get_session
            st2 == create_db_and_tables(st)
            c == Commit(st2, Add(db, User(bob, bobmail, bobpass)))
        IN  IF c.exc # "none"
            THEN Propagate(c.st, c.db, CondOf(c.exc), c.exc)
            ELSE Result(c.st, c.db, Printed("Database Initialized", <<>>),
                        "none", "none"))
initialize(st) ==
    WithSession(
        LET db == get_session
            st1 == drop_all(st)
            st2 == create_db_and_tables(st1)
            c == Commit(st2, Add(db, User(bob, bobmail, bobpass)))
        IN  IF c.exc # "none"
            THEN Propagate(c.st, c.db, CondOf(c.exc), c.exc)
            ELSE Result(c.st, c.db, Printed("Database Initialized", <<>>),
                        "none", "none"))

get_user(st, username) ==
    WithSession(
        LET db == get_session
        IN  IF ~st.schema
            THEN Propagate(st, db, "none", "OperationalError")
            ELSE LET user == FindByUsername(st.table, username)
                 IN  IF user = None
                     THEN Result(st, db,
                                 Printed("Error: {username} not found!", <<>>),
                                 "not_found", "none")
                     ELSE Result(st, db, Printed("{user}", <<user>>),
                                 "none", "none"))

get_all_users(st) ==
    WithSession(
        LET db == get_session
        IN  IF ~st.schema
            THEN Propagate(st, db, "none", "OperationalError")
            ELSE IF st.table = <<>>
            THEN Result(st, db, Printed("No users found", <<>>), "none", "none")
            ELSE Result(st, db, Printed("{user}", st.table), "none", "none"))

change_email(st, username, new_email) ==
    WithSession(
        LET db == get_session
        IN  IF ~st.schema
            THEN Propagate(st, db, "none", "OperationalError")
            ELSE LET user == FindByUsername(st.table, username)
                     changed == [user EXCEPT !.email = new_email]
                     c == Commit(st, Add(db, changed))
                 IN  IF user = None
                     THEN Result(st, db,
                            Printed("Error: {username} not found! Unable to update email.",
                                    <<>>),
                            "not_found", "none")
                     ELSE IF c.exc # "none"
                     THEN Propagate(c.st, c.db, CondOf(c.exc), c.exc)
                     ELSE Result(c.st, c.db,
                            Printed("Success: Updated {user.username}'s email to {user.email}",
                                    <<Refresh(c.st.table, user.id)>>),
                            "none", "none"))

\* Faulty variant: the except branch reports nothing and the command goes on as on success.
create_user_SilentIgnore(st, username, email, password) ==
    WithSession(
        LET db == get_session
            newuser == User(username, email, password)
            c == Commit(st, Add(db, newuser))
        IN  IF c.exc = "IntegrityError"
            THEN Result(c.st, Rollback(c.db), Printed("Created: {newuser}", <<newuser>>),
                        "none", "none")
            ELSE IF c.exc # "none"
            THEN Propagate(c.st, c.db, CondOf(c.exc), c.exc)
            ELSE Result(c.st, c.db,
                        Printed("Created: {newuser}",
                                <<Refresh(c.st.table, NewId(st.table))>>),
                        "none", "none"))
\* Faulty variant: no try/except around the commit.
create_user_NoCatch(st, username, email, password) ==
    WithSession(
        LET db == get_session
            newuser == User(username, email, password)
            c == Commit(st, Add(db, newuser))
        IN  IF c.exc # "none"
            THEN Propagate(c.st, c.db, CondOf(c.exc), c.exc)
            ELSE Result(c.st, c.db,
                        Printed("Created: {newuser}",
                                <<Refresh(c.st.table, NewId(st.table))>>),
                        "none", "none"))
\* Faulty variant: email and password given to the wrong fields of User.
create_user_Swapped(st, username, email, password) ==
    WithSession(
        LET db == get_session
            newuser == User(username, password, email)
            c == Commit(st, Add(db, newuser))
        IN  IF c.exc = "IntegrityError"
            THEN Result(c.st, Rollback(c.db),
                        Printed("Error: Username or email already taken!", <<>>),
                        "duplicate", "none")
            ELSE IF c.exc # "none"
            THEN Propagate(c.st, c.db, CondOf(c.exc), c.exc)
            ELSE Result(c.st, c.db,
                        Printed("Created: {newuser}",
                                <<Refresh(c.st.table, NewId(st.table))>>),
                        "none", "none"))
create_user(st, username, email, password) ==
    WithSession(
        LET db == get_session
            newuser == User(username, email, password)
            c == Commit(st, Add(db, newuser))
        IN  IF c.exc = "IntegrityError"
            THEN Result(c.st, Rollback(c.db),
                        Printed("Error: Username or email already taken!", <<>>),
                        "duplicate", "none")
            ELSE IF c.exc # "none"
            THEN Propagate(c.st, c.db, CondOf(c.exc), c.exc)
            ELSE Result(c.st, c.db,
                        Printed("Created: {newuser}",
                                <<Refresh(c.st.table, NewId(st.table))>>),
                        "none", "none"))

\* Faulty variant: db.delete(user) with the commit forgotten.
delete_user_NoCommit(st, username) ==
    WithSession(
        LET db == get_session
        IN  IF ~st.schema
            THEN Propagate(st, db, "none", "OperationalError")
            ELSE LET user == FindByUsername(st.table, username)
                 IN  IF user = None
                     THEN Result(st, db,
                            Printed("Error: {username} not found! Unable to delete user.",
                                    <<>>),
                            "not_found", "none")
                     ELSE Result(st, Delete(db, user),
                            Printed("Success: {username} deleted", <<>>),
                            "none", "none"))
delete_user(st, username) ==
    WithSession(
        LET db == get_session
        IN  IF ~st.schema
            THEN Propagate(st, db, "none", "OperationalError")
            ELSE LET user == FindByUsername(st.table, username)
                     c == Commit(st, Delete(db, user))
                 IN  IF user = None
                     THEN Result(st, db,
                            Printed("Error: {username} not found! Unable to delete user.",
                                    <<>>),
                            "not_found", "none")
                     ELSE IF c.exc # "none"
                     THEN Propagate(c.st, c.db, CondOf(c.exc), c.exc)
                     ELSE Result(c.st, c.db,
                            Printed("Success: {username} deleted", <<>>),
                            "none", "none"))

\* SQL's  s LIKE pattern : "%" stands for any run of characters, "_" for any one
\* character, every other character for itself.  fold says whether the store's
\* LIKE compares letters without regard to case (SQLite does for ASCII letters,
\* PostgreSQL does not).
RECURSIVE Like(_, _, _)
Like(pattern, s, fold) ==
    IF pattern = <<>> THEN s = <<>>
    ELSE IF Head(pattern) = "%"
    THEN \/ Like(Tail(pattern), s, fold)
         \/ (s # <<>> /\ Like(pattern, Tail(s), fold))
    ELSE IF s = <<>> THEN FALSE
    ELSE /\ \/ Head(pattern) = "_"
            \/ Head(pattern) = Head(s)
            \/ (fold /\ ToLower(Head(pattern)) = ToLower(Head(s)))
         /\ Like(Tail(pattern), Tail(s), fold)

\* column.contains(query): column LIKE '%' || query || '%', query not escaped.
contains(column, query, fold) == Like(<<"%">> \o query \o <<"%">>, column, fold)

search_users(st, query, fold) ==
    WithSession(
        LET db == get_session
            results == SelectSeq(st.table, LAMBDA r :
                           \/ contains(r.username, query, fold)
                           \/ contains(r.email, query, fold))
        IN  IF ~st.schema
            THEN Propagate(st, db, "none", "OperationalError")
            ELSE IF results = <<>>
            THEN Result(st, db, Printed("No matches found for: {query}", <<>>),
                        "none", "none")
            ELSE Result(st, db, Printed("{user}", results), "none", "none"))

\* OFFSET n: the rows after the first n.   LIMIT n: the first n rows at most.
\* The values are handed to the store unchecked; for a negative one the store's
\* own rule applies, here SQLite's: a negative OFFSET counts as 0 and a negative
\* LIMIT as no limit.
RECURSIVE OffsetRows(_, _)
OffsetRows(rows, n) ==
    IF n <= 0 \/ rows = <<>> THEN rows ELSE OffsetRows(Tail(rows), n - 1)
RECURSIVE LimitRows(_, _)
LimitRows(rows, n) ==
    IF n < 0 THEN rows
    ELSE IF n = 0 \/ rows = <<>> THEN <<>>
    ELSE <<Head(rows)>> \o LimitRows(Tail(rows), n - 1)

\* Faulty variant: limit and offset taken for each other.
Paginate_Swapped(rows, limit, offset) == LimitRows(OffsetRows(rows, limit), offset)
\* select(User).offset(offset).limit(limit)
Paginate(rows, limit, offset) == LimitRows(OffsetRows(rows, offset), limit)

list_paginated(st, limit, offset) ==
    WithSession(
        LET db == get_session
            results == Paginate(st.table, limit, offset)
        IN  IF ~st.schema
            THEN Propagate(st, db, "none", "OperationalError")
            ELSE IF results = <<>>
            THEN Result(st, db, Printed("No users found in this range.", <<>>),
                        "none", "none")
            ELSE Result(st, db,
                        Printed("--- Results (Limit: {limit}, Offset: {offset}) ---",
                                results),
                        "none", "none"))

----------------------------------------------------------------------------
(* The state machine: one action per command, run as a whole *)

Store == [schema |-> schema, table |-> table]

\* History of a scan: list_paginated with the same limit at offsets 0, limit,
\* 2*limit, ... with no other command in between.
PageLogNext(log, r, limit, offset) ==
    LET entry == [limit |-> limit, offset |-> offset, rows |-> r.out.rows]
    IN  IF r.exc # "none" \/ limit < 1 THEN <<>>
        ELSE IF offset = 0 THEN <<entry>>
        ELSE IF /\ log # <<>>
                /\ log[1].limit = limit
                /\ log[Len(log)].offset + limit = offset
        THEN Append(log, entry)
        ELSE <<>>

Record(c, a, r, log) ==
    /\ before' = Store
    /\ schema' = r.schema
    /\ table' = r.table
    /\ session' = r.session
    /\ cmd' = c
    /\ args' = a
    /\ out' = r.out
    /\ cond' = r.cond
    /\ exc' = r.exc
    /\ pageLog' = log

\* The model stops handing out ids at MaxId.
WithinIds(r) == \A row \in Range(r.table) : row.id <= MaxId

Init ==
    /\ schema = FALSE
    /\ table = <<>>
    /\ session = SessionClose(get_session)
    /\ cmd = "none"
    /\ args = NoArgs
    /\ out = Nothing
    /\ cond = "none"
    /\ exc = "none"
    /\ before = [schema |-> FALSE, table |-> <<>>]
    /\ pageLog = <<>>

InitializeCmd == Record("initialize", NoArgs, initialize(Store), <<>>)

GetUserCmd ==
    \E u \in Usernames :
        Record("get_user", [NoArgs EXCEPT !.username = u], get_user(Store, u), <<>>)

GetAllUsersCmd == Record("get_all_users", NoArgs, get_all_users(Store), <<>>)

ChangeEmailCmd ==
    \E u \in Usernames, e \in Emails :
        Record("change_email", [NoArgs EXCEPT !.username = u, !.email = e],
               change_email(Store, u, e), <<>>)

CreateUserCmd ==
    \E u \in Usernames, e \in Emails, p \in Passwords :
        LET r == create_user(Store, u, e, p)
        IN  /\ WithinIds(r)
            /\ Record("create_user",
                      [NoArgs EXCEPT !.username = u, !.email = e, !.password = p],
                      r, <<>>)

DeleteUserCmd ==
    \E u \in Usernames :
        Record("delete_user", [NoArgs EXCEPT !.username = u],
               delete_user(Store, u), <<>>)

SearchUsersCmd ==
    \E q \in Queries, fold \in BOOLEAN :
        Record("search_users", [NoArgs EXCEPT !.query = q, !.fold = fold],
               search_users(Store, q, fold), <<>>)

ListPaginatedCmd ==
    \E limit \in Limits, offset \in Offsets :
        LET r == list_paginated(Store, limit, offset)
        IN  Record("list_paginated",
                   [NoArgs EXCEPT !.limit = limit, !.offset = offset],
                   r, PageLogNext(pageLog, r, limit, offset))

\* create_user for the numbered users of the pagination scans.
PoolCreateCmd ==
    \E i \in 1 .. PoolSize :
        LET r == create_user(Store, PoolName(i), PoolMail(i), <<"p", "w">>)
        IN  /\ WithinIds(r)
            /\ Record("create_user",
                      [NoArgs EXCEPT !.username = PoolName(i), !.email = PoolMail(i),
                                     !.password = <<"p", "w">>],
                      r, <<>>)

Next ==
    \/ InitializeCmd
    \/ GetUserCmd
    \/ GetAllUsersCmd
    \/ ChangeEmailCmd
    \/ CreateUserCmd
    \/ DeleteUserCmd
    \/ SearchUsersCmd
    \/ ListPaginatedCmd

Spec == Init /\ [][Next]_vars

NextPage ==
    \/ InitializeCmd
    \/ PoolCreateCmd
    \/ ListPaginatedCmd

SpecPage == Init /\ [][NextPage]_vars

----------------------------------------------------------------------------
(* Properties *)

Unique(rows) ==
    \A i, j \in 1 .. Len(rows) :
        i # j => /\ rows[i].username # rows[j].username
                 /\ rows[i].email # rows[j].email

HasUsername(rows, u) == \E r \in Range(rows) : r.username = u
HasEmail(rows, e) == \E r \in Range(rows) : r.email = e

\* q occurs in s as a run of consecutive characters, each compared as it is.
IsSubstring(q, s) ==
    \E i \in 0 .. Len(s) - Len(q) : SubSeq(s, i + 1, i + Len(q)) = q

SeedRow == [id |-> 1, username |-> bob, email |-> bobmail, password |-> bobpass]

\* C1: in every reachable state no two rows share a username and no two share an
\* email, and a create_user whose username or email a row already holds is
\* refused by the store (the uniqueness violation is raised, not ignored).
C1_UniqueKeys ==
    /\ Unique(table)
    /\ (/\ cmd = "create_user"
        /\ before.schema
        /\ (HasUsername(before.table, args.username)
            \/ HasEmail(before.table, args.email)))
       => cond = "duplicate"

\* C1 witness: a duplicate insert was just refused on a table of two or more rows.
C1_Witness ==
    /\ cmd = "create_user"
    /\ cond = "duplicate"
    /\ Len(table) >= 2

\* C2: create_user with a username or an email that a row already holds leaves
\* the table as it was, prints the taken-field error and ends normally.
C2_DuplicateCreateLeavesTable ==
    (/\ cmd = "create_user"
     /\ before.schema
     /\ (HasUsername(before.table, args.username)
         \/ HasEmail(before.table, args.email)))
    => /\ table = before.table
       /\ schema = before.schema
       /\ out = Printed("Error: Username or email already taken!", <<>>)
       /\ exc = "none"

\* C2 witness: a create_user refused for its email alone (the username was free).
C2_Witness ==
    /\ cmd = "create_user"
    /\ out.msg = "Error: Username or email already taken!"
    /\ HasEmail(table, args.email)
    /\ ~HasUsername(table, args.username)
    /\ table = before.table

\* C3 (as claimed): every not-found condition and every uniqueness violation met
\* by a command is printed as a message and the command ends normally.
C3_ConditionsAreReported ==
    cond \in {"not_found", "duplicate"} => (exc = "none" /\ out.msg # "")

\* The two parts of the create_user / get_user round trip: the state after
\* create_user, and the get_user step that follows it.
C4_CreateAddsOneRow ==
    (/\ cmd = "create_user"
     /\ before.schema
     /\ ~HasUsername(before.table, args.username)
     /\ ~HasEmail(before.table, args.email))
    => /\ Len(table) = Len(before.table) + 1
       /\ exc = "none"
       /\ cond = "none"
C4_GetAfterCreate ==
    (/\ cmd = "create_user"
     /\ before.schema
     /\ ~HasUsername(before.table, args.username)
     /\ ~HasEmail(before.table, args.email)
     /\ cmd' = "get_user"
     /\ args'.username = args.username)
    => /\ Len(out'.rows) = 1
       /\ out'.rows[1].username = args.username
       /\ out'.rows[1].email = args.email
       /\ out'.rows[1].password = args.password
       /\ cond' = "none"
       /\ exc' = "none"
\* C4 (amended): when the User table exists, create_user with an unused username
\* and an unused email adds exactly one row, and a get_user of that username run
\* next prints a record with the username, email and password given.  Before the
\* first initialize there is no table and the precondition excludes that state.
C4_CreateThenGet == []C4_CreateAddsOneRow /\ [][C4_GetAfterCreate]_vars

\* The same two parts from any reachable state of the store, the state with no
\* table included.
C4_CreateAddsOneRow_AnyState ==
    (/\ cmd = "create_user"
     /\ ~HasUsername(before.table, args.username)
     /\ ~HasEmail(before.table, args.email))
    => /\ Len(table) = Len(before.table) + 1
       /\ exc = "none"
       /\ cond = "none"
C4_GetAfterCreate_AnyState ==
    (/\ cmd = "create_user"
     /\ ~HasUsername(before.table, args.username)
     /\ ~HasEmail(before.table, args.email)
     /\ cmd' = "get_user"
     /\ args'.username = args.username)
    => /\ Len(out'.rows) = 1
       /\ out'.rows[1].username = args.username
       /\ out'.rows[1].email = args.email
       /\ out'.rows[1].password = args.password
       /\ cond' = "none"
       /\ exc' = "none"
\* C4 (as claimed): from any reachable state, create_user with an unused username
\* and an unused email adds exactly one row and the get_user that follows prints
\* the record given.
C4_CreateThenGet_AnyState ==
    []C4_CreateAddsOneRow_AnyState /\ [][C4_GetAfterCreate_AnyState]_vars

\* C4 witness: create_user has just added a row to a table that held others.
C4_Witness ==
    /\ cmd = "create_user"
    /\ cond = "none"
    /\ exc = "none"
    /\ Len(before.table) >= 1
    /\ Len(table) = Len(before.table) + 1
    /\ table[Len(table)].username = args.username

\* The state after delete_user, and the get_user step that follows it.
C5_DeleteRemovesOneRow ==
    (cmd = "delete_user" /\ before.schema)
    => IF HasUsername(before.table, args.username)
       THEN /\ table = SelectSeq(before.table,
                                 LAMBDA r : r.username # args.username)
            /\ Len(table) = Len(before.table) - 1
            /\ cond = "none"
            /\ exc = "none"
       ELSE /\ table = before.table
            /\ cond = "not_found"
            /\ exc = "none"
C5_GetAfterDelete ==
    (/\ cmd = "delete_user"
     /\ before.schema
     /\ HasUsername(before.table, args.username)
     /\ cmd' = "get_user"
     /\ args'.username = args.username)
    => /\ cond' = "not_found"
       /\ out' = Printed("Error: {username} not found!", <<>>)
\* C5: delete_user(u) on a table with a row named exactly u removes that row and
\* no other, and a get_user(u) run next reports not-found; with no row named u
\* it deletes nothing.
C5_DeleteThenGet == []C5_DeleteRemovesOneRow /\ [][C5_GetAfterDelete]_vars

\* C5 witness: "bo" was deleted and "bob", which contains it, is still there.
C5_Witness ==
    /\ cmd = "delete_user"
    /\ args.username = <<"b", "o">>
    /\ HasUsername(before.table, <<"b", "o">>)
    /\ ~HasUsername(table, <<"b", "o">>)
    /\ HasUsername(table, bob)

\* C6: change_email(u, e) with no row named exactly u writes nothing, whatever e
\* is, and reports not-found.
C6_ChangeEmailUnknownUser ==
    (/\ cmd = "change_email"
     /\ before.schema
     /\ ~HasUsername(before.table, args.username))
    => /\ table = before.table
       /\ schema = before.schema
       /\ cond = "not_found"
       /\ exc = "none"
       /\ out = Printed("Error: {username} not found! Unable to update email.", <<>>)

\* C6 witness: change_email for "bo" on a table that holds "bob" but no "bo",
\* with an email no row holds.
C6_Witness ==
    /\ cmd = "change_email"
    /\ cond = "not_found"
    /\ args.username = <<"b", "o">>
    /\ HasUsername(table, bob)
    /\ ~HasEmail(table, args.email)

\* The state after initialize, and an initialize step that follows another.
C7_SeedOnly ==
    cmd = "initialize"
    => /\ schema
       /\ table = <<SeedRow>>
       /\ exc = "none"
       /\ out = Printed("Database Initialized", <<>>)
C7_Twice ==
    (cmd = "initialize" /\ cmd' = "initialize")
    => (schema' = schema /\ table' = table)
\* C7: after initialize, from whatever state, the table holds exactly the seed
\* user bob / bob@mail.com / bobpass, and a second initialize changes nothing.
C7_InitializeSeeds == []C7_SeedOnly /\ [][C7_Twice]_vars

\* C7 witness: initialize ran on a table that held bob and another user.
C7_Witness ==
    /\ cmd = "initialize"
    /\ HasUsername(before.table, bob)
    /\ Len(before.table) >= 2
    /\ table = <<SeedRow>>

\* C8: every command ends with its session closed and nothing pending in it, on
\* every way out, and a command that did not commit leaves the store as it was.
C8_SessionReleased ==
    cmd # "none"
    => /\ ~session.open
       /\ session.pending = <<>>
       /\ (cond # "none" \/ exc # "none") => table = before.table

\* C8 witness: a failure propagated out of change_email, and the session is closed.
C8_Witness ==
    /\ cmd = "change_email"
    /\ exc = "IntegrityError"
    /\ ~session.open
    /\ table = before.table

\* The rows of the pages of a scan, one after another.
RECURSIVE PagesRows(_)
PagesRows(log) ==
    IF log = <<>> THEN <<>> ELSE log[1].rows \o PagesRows(Tail(log))

\* C9: the pages of a scan with limit L >= 1 at offsets 0, L, 2L, ... are pairwise
\* disjoint, hold at most L rows each, and together are all the rows once the
\* offsets reach the row count; an offset at or past the row count gives nothing.
C9_PagesPartitionTable ==
    /\ pageLog # <<>> =>
        /\ \A i \in 1 .. Len(pageLog) : Len(pageLog[i].rows) <= pageLog[1].limit
        /\ \A i, j \in 1 .. Len(pageLog) :
              i # j => Range(pageLog[i].rows) \cap Range(pageLog[j].rows) = {}
        /\ Len(pageLog) * pageLog[1].limit >= Len(table)
              => PagesRows(pageLog) = table
        /\ Range(PagesRows(pageLog)) \subseteq Range(table)
    /\ (cmd = "list_paginated" /\ schema /\ args.offset >= Len(table))
        => out = Printed("No users found in this range.", <<>>)

\* C9 witness: limit 2 at offsets 0 and 2 over a table of four rows.
C9_Witness ==
    /\ Len(table) = 4
    /\ Len(pageLog) = 2
    /\ pageLog[1].limit = 2
    /\ Len(pageLog[1].rows) = 2
    /\ Len(pageLog[2].rows) = 2

\* C10 (as claimed): search_users(q) prints exactly the rows whose username or
\* email contains q as a substring, every character of q compared as it is and
\* letter case kept, and prints the no-matches message exactly when there is none.
C10_LiteralSubstringSearch ==
    (cmd = "search_users" /\ schema)
    => LET hits == SelectSeq(table, LAMBDA r :
                       \/ IsSubstring(args.query, r.username)
                       \/ IsSubstring(args.query, r.email))
       IN  /\ out.rows = hits
           /\ (hits = <<>>) <=> (out.msg = "No matches found for: {query}")

====
